---- MODULE Spec2Model ----
(***************************************************************************)
(* Model of the URL fetch service (yvgenycyolo/fetch):                     *)
(*   internal/service/fetch.go  FetchService: the result store, the        *)
(*                              orchestrator (SubmitURLs / fetchURL /      *)
(*                              updateResult) and the cleanup scheduler.   *)
(*   internal/ratelimit         RateLimiter: the per-key admission limiter *)
(*                              (Allow / cleanupVisitors).                 *)
(*   internal/handler           Handler.HandlePostFetch: the admission     *)
(*                              check in front of SubmitURLs.              *)
(* Go indexes slices from 0; TLA+ sequences from 1.  Task positions keep   *)
(* the Go value, and the store is read at position index + 1.              *)
(* Time is a discrete clock `now`; the zero time.Time is 0 and the clock   *)
(* starts at 1, so that an unset timestamp differs from every real one.    *)
(***************************************************************************)
EXTENDS Integers, Sequences, FiniteSets, TLC

\* ------------------------------------------------------------------ bounds
\* With all of them raised by one the store specification has about 600 000
\* states and the limiter specification about 670 000.
MaxEntries == 2       \* entries appended over one run
MaxBatch == 2         \* URLs of one submitted batch
MaxRate == 3          \* largest rate a limiter is constructed with
MaxBurst == 2         \* largest burst a limiter is constructed with
MaxWindow == 2        \* longest window a limiter is constructed with

\* ----------------------------------------------------------- configuration
\* service.Config, in clock units / entries / bytes.
ResultTTL == 1
MaxResultsInMemory == 1
MaxRedirects == 2
MaxContentSize == 11

\* The clock runs over 1..MaxTime: far enough for an entry to outlive the TTL.
MaxTime == ResultTTL + 2

\* The limiter's clock runs over 1..MaxClock: far enough for a key first seen
\* at 1 to stay silent for more than twice the longest window.
MaxClock == 2 * MaxWindow + 2

VARIABLES
    results,          \* fs.results
    ids,              \* ghost: ids[p] is the identity of the entry at results[p]
    lastSubmission,   \* fs.lastSubmission
    cleanupStats,     \* fs.cleanupStats
    sched,            \* runCleanup goroutine: "running" or "stopped"
    stopSignal,       \* fs.cleanupStopChan is closed
    maxResults,       \* fs.config.MaxResultsInMemory
    held,             \* the response of GetResults a caller holds on to
    now,              \* time.Now()
    nextId,           \* ghost: identity of the next entry appended
    quota,            \* entries the callers may still submit in this run
    submits,          \* SubmitURLs calls between their append and their last `go`
    tasks,            \* fetchURL goroutines
    panicked,         \* "none", or the run-time panic that ended the process
    last,             \* the sweep, clear, snapshot, Allow or handler call that has
                      \* just returned, with what it handed to its caller;
                      \* NoCall after any other step
    visitors,         \* rl.visitors: a function from the keys that have a Visitor
    rate,             \* rl.rate
    burst,            \* rl.burst
    window,           \* rl.window
    granted,          \* ghost: requests of a key allowed since its window began
    instant,          \* ghost: requests of a key allowed at the present instant
    seen,             \* ghost: the keys that have ever called Allow
    mu                \* fs.mu: "free", or the SubmitURLs call (the identity of its
                      \* first entry) that holds it for writing

storeVars == <<results, ids, lastSubmission, cleanupStats, sched, stopSignal, maxResults, held,
               nextId, quota, submits, tasks, panicked>>

limiterVars == <<visitors, rate, burst, window, granted, instant, seen>>

vars == <<results, ids, lastSubmission, cleanupStats, sched, stopSignal, maxResults, held, now,
          nextId, quota, submits, tasks, panicked, last, limiterVars, mu>>

\* --------------------------------------------------------------- the data
URLs == {"", "https://a.test"}

\* A response body of n bytes.
Body(n) == [k \in 1..n |-> 1]

\* Bodies: empty, one byte, and the lengths around the content cap.
Bodies == {Body(n) : n \in {0, 1, MaxContentSize - 1, MaxContentSize, MaxContentSize + 1}}

\* models.FetchResult with every field at its Go zero value.
ZeroResult ==
    [URL |-> "", Status |-> "", Content |-> <<>>, ContentLength |-> 0,
     StatusCode |-> 0, Error |-> "", FetchedAt |-> 0, CreatedAt |-> 0,
     Duration |-> "", RedirectCount |-> 0, FinalURL |-> ""]

\* models.CleanupStats at its zero value.
ZeroStats ==
    [LastCleanup |-> 0, TotalCleaned |-> 0, CleanupCount |-> 0, ResultsInMemory |-> 0]

ZeroResponse ==
    [TotalURLs |-> 0, SuccessCount |-> 0, FailedCount |-> 0, PendingCount |-> 0,
     Results |-> <<>>, LastSubmission |-> 0]

\* No caller holds a response of GetResults.  A response held has the slice
\* of results to itself (own) or shares the array of fs.results; ids are the
\* identities of the entries it was built from.
NoSnapshot == [taken |-> FALSE, own |-> TRUE, ids |-> <<>>, response |-> ZeroResponse]

\* No store operation has just returned.
NoCall == [op |-> "none", count |-> 0, response |-> ZeroResponse]

Min(a, b) == IF a < b THEN a ELSE b

\* ------------------------------------------------------ HTTP fetch executor
\* What the network answers to one GET: `hops` redirects, then `final`:
\* "ok" (a response with `status` and `body`), "timeout" (deadline expiry),
\* "transport" (DNS / connection error) or "readerr" (headers received, the
\* body read fails).  `target` is the URL the redirect chain ends at.
Responses ==
    [hops : 0..(MaxRedirects + 3), final : {"ok", "timeout", "transport", "readerr"},
     status : {200}, body : Bodies, target : {"https://c.test"}]

\* The responses the store's fetch tasks meet.
StoreResponses ==
    {r \in Responses : r.hops = 0 /\ r.body = Body(1) /\ r.final \in {"ok", "timeout"}}

\* http.NewRequestWithContext rejects a URL it cannot parse.
Unparsable(url) == url = "%zz"

\* The URLs the fetch executor is given: those of the store and one that
\* http.NewRequestWithContext cannot parse.
FetchURLs == URLs \cup {"%zz"}

\* len(via) at the CheckRedirect call that returns the error: the first call
\* with len(via) >= MaxRedirects, and the first call has len(via) = 1.
RedirectTrip == IF MaxRedirects > 1 THEN MaxRedirects ELSE 1

\* The redirects the client followed, that is the requests it made after the
\* first one: CheckRedirect returned nil for each of them, and the redirect
\* it returns the error for is not followed.
HopsFollowed(resp) ==
    IF resp.hops >= RedirectTrip THEN RedirectTrip - 1 ELSE resp.hops

LimitReadBelowCap(body) == SubSeq(body, 1, Min(Len(body), MaxContentSize - 1))

\* io.LimitReader(resp.Body, MaxContentSize) read to the end.
LimitRead(body) == SubSeq(body, 1, Min(Len(body), MaxContentSize))

\* resp.Request.URL.String(): the URL of the last request made.
FinalURLOf(url, resp) == IF resp.hops = 0 THEN url ELSE resp.target

\* time.Since(startTime).String(): a non-empty string such as "1.2ms"; the
\* model keeps that it is set, not its value.
Elapsed(start, t) == "elapsed"

EmptyURLOutcomeNoError(url, start, t) ==
    [ZeroResult EXCEPT !.URL = url, !.Status = "failed", !.Duration = Elapsed(start, t)]

\* The FetchResult fetchURL hands to updateResult for an empty URL.
EmptyURLOutcome(url, start, t) ==
    [ZeroResult EXCEPT !.URL = url, !.Status = "failed", !.Error = "URL is empty",
                       !.Duration = Elapsed(start, t)]

\* The FetchResult fetchURL hands to updateResult for a non-empty URL, the
\* network answering `resp`; `start` is startTime and `t` the time at the end.
FetchOutcome(url, resp, start, t) ==
    IF Unparsable(url) THEN
        [ZeroResult EXCEPT !.URL = url, !.Status = "failed",
                           !.Error = "Failed to create request", !.Duration = Elapsed(start, t)]
    ELSE IF resp.hops >= RedirectTrip THEN
        [ZeroResult EXCEPT !.URL = url, !.Status = "failed",
                           !.Error = "Failed to fetch URL: stopped after redirects",
                           !.Duration = Elapsed(start, t), !.RedirectCount = RedirectTrip]
    ELSE IF resp.final = "timeout" THEN
        [ZeroResult EXCEPT !.URL = url, !.Status = "failed",
                           !.Error = "Request timeout exceeded",
                           !.Duration = Elapsed(start, t), !.RedirectCount = resp.hops]
    ELSE IF resp.final = "transport" THEN
        [ZeroResult EXCEPT !.URL = url, !.Status = "failed",
                           !.Error = "Failed to fetch URL: transport error",
                           !.Duration = Elapsed(start, t), !.RedirectCount = resp.hops]
    ELSE IF resp.final = "readerr" THEN
        [ZeroResult EXCEPT !.URL = url, !.Status = "failed", !.StatusCode = resp.status,
                           !.Error = "Failed to read response body",
                           !.Duration = Elapsed(start, t), !.FinalURL = FinalURLOf(url, resp),
                           !.RedirectCount = resp.hops]
    ELSE IF Len(LimitRead(resp.body)) >= MaxContentSize THEN
        [ZeroResult EXCEPT !.URL = url, !.Status = "failed", !.StatusCode = resp.status,
                           !.Error = "Response body too large",
                           !.Duration = Elapsed(start, t), !.FinalURL = FinalURLOf(url, resp),
                           !.RedirectCount = resp.hops]
    ELSE
        [ZeroResult EXCEPT !.URL = url, !.Status = "success",
                           !.Content = LimitRead(resp.body),
                           !.ContentLength = Len(LimitRead(resp.body)),
                           !.StatusCode = resp.status, !.FetchedAt = t,
                           !.Duration = Elapsed(start, t), !.FinalURL = FinalURLOf(url, resp),
                           !.RedirectCount = resp.hops]

\* ------------------------------------------------------------ result store
PendingResultNoTime(url, t) ==
    [ZeroResult EXCEPT !.URL = url, !.Status = "pending"]

\* The pending entry SubmitURLs appends for one URL.
PendingResult(url, t) ==
    [ZeroResult EXCEPT !.URL = url, !.Status = "pending", !.CreatedAt = t]

\* The batches a caller submits (the handler rejects an empty batch).
Batches == UNION {[1..n -> URLs] : n \in 1..MaxBatch}

StoredAsGiven(result, old) == result

\* updateResult: what is stored at a position holding `old`.
Stored(result, old) == [result EXCEPT !.CreatedAt = old.CreatedAt]

\* GetResults: the counting loop over the copied entries, from position i on.
RECURSIVE Tally(_, _, _)
Tally(rs, i, acc) ==
    IF i > Len(rs) THEN acc
    ELSE Tally(rs, i + 1,
               CASE rs[i].Status = "success" ->
                        [acc EXCEPT !.SuccessCount = @ + 1]
                 [] rs[i].Status = "failed" ->
                        [acc EXCEPT !.FailedCount = @ + 1]
                 [] rs[i].Status = "pending" ->
                        [acc EXCEPT !.PendingCount = @ + 1]
                 [] OTHER -> acc)

BuildResponseSkipFirst(rs, submitted) ==
    Tally(rs, 2, [ZeroResponse EXCEPT !.TotalURLs = Len(rs), !.Results = rs,
                                      !.LastSubmission = submitted])

\* GetResults: the response built from the store.
BuildResponse(rs, submitted) ==
    Tally(rs, 1, [ZeroResponse EXCEPT !.TotalURLs = Len(rs), !.Results = rs,
                                      !.LastSubmission = submitted])

IsFreshReversed(age) == age >= ResultTTL

\* cleanupOldResults: the TTL test that keeps a result of the given age.
IsFresh(age) == age < ResultTTL

\* cleanupOldResults: the positions the TTL loop keeps, from position i on.
RECURSIVE KeptByTTL(_, _, _)
KeptByTTL(rs, t, i) ==
    IF i > Len(rs) THEN <<>>
    ELSE (IF IsFresh(t - rs[i].CreatedAt) THEN <<i>> ELSE <<>>) \o KeptByTTL(rs, t, i + 1)

\* cleanupOldResults: excess over the capacity ceiling (0 when within it).
Excess(n) == IF n > maxResults THEN n - maxResults ELSE 0

DropNewest(kept, excess) == SubSeq(kept, 1, Len(kept) - excess)

DropMiddle(kept, excess) ==
    IF excess = 0 \/ Len(kept) - excess < 2 THEN SubSeq(kept, excess + 1, Len(kept))
    ELSE <<kept[Len(kept)]>> \o SubSeq(kept, excess + 1, Len(kept) - 1)

\* cleanupOldResults: newResults[excess:].
DropOldest(kept, excess) == SubSeq(kept, excess + 1, Len(kept))

StatsAfterSweepCountsOne(stats, t, cleaned, remaining) ==
    [stats EXCEPT !.LastCleanup = t, !.TotalCleaned = @ + 1,
                  !.CleanupCount = @ + 1, !.ResultsInMemory = remaining]

StatsAfterSweepNoCount(stats, t, cleaned, remaining) ==
    [stats EXCEPT !.LastCleanup = t, !.TotalCleaned = @ + cleaned,
                  !.ResultsInMemory = remaining]

\* cleanupOldResults: the statistics after a sweep that removed `cleaned` > 0.
StatsAfterSweep(stats, t, cleaned, remaining) ==
    [stats EXCEPT !.LastCleanup = t, !.TotalCleaned = @ + cleaned,
                  !.CleanupCount = @ + 1, !.ResultsInMemory = remaining]

StatsAfterClearRestart(stats, count) ==
    [stats EXCEPT !.TotalCleaned = count, !.ResultsInMemory = 0]

StatsAfterClearNoTotal(stats, count) == [stats EXCEPT !.ResultsInMemory = 0]

\* ClearAllResults: the statistics after clearing `count` entries.
StatsAfterClear(stats, count) ==
    [stats EXCEPT !.TotalCleaned = @ + count, !.ResultsInMemory = 0]

\* The entries at the given positions, in that order.
Pick(seq, positions) == [k \in 1..Len(positions) |-> seq[positions[k]]]

\* cleanupOldResults run on a store `rs` (identities `is`) with statistics
\* `stats` at time t: the store and statistics it leaves, with its locals.
Sweep(rs, is, stats, t) ==
    LET young == KeptByTTL(rs, t, 1)
        excess == Excess(Len(young))
        kept == DropOldest(young, excess)
        cleaned == (Len(rs) - Len(young)) + excess
    IN IF cleaned > 0
       THEN [results |-> Pick(rs, kept), ids |-> Pick(is, kept),
             cleanupStats |-> StatsAfterSweep(stats, t, cleaned, Len(kept)),
             cleaned |-> cleaned, excess |-> excess]
       ELSE [results |-> rs, ids |-> is, cleanupStats |-> stats,
             cleaned |-> cleaned, excess |-> excess]

\* ClearAllResults run on a store `rs` with statistics `stats`: the store and
\* statistics it leaves, and the count it returns.
ClearAll(rs, stats) ==
    [results |-> <<>>, cleanupStats |-> StatsAfterClear(stats, Len(rs)),
     count |-> Len(rs)]

\* ------------------------------------------------------- admission limiter
\* The keys (client addresses) that call the limiter.
Keys == {"10.0.0.1", "10.0.0.2"}

NewVisitorFullBurst(t) ==
    [tokens |-> burst, lastSeen |-> t, windowStart |-> t, requestCount |-> 1]

NewVisitorEmpty(t) ==
    [tokens |-> 0, lastSeen |-> t, windowStart |-> t, requestCount |-> 1]

\* The Visitor Allow creates for a key it has no state for, and the state the
\* window reset gives an existing one.
NewVisitor(t) ==
    [tokens |-> burst - 1, lastSeen |-> t, windowStart |-> t, requestCount |-> 1]

WindowExpiredAtBoundary(v, t) == t - v.windowStart >= window

\* Allow: now.Sub(visitor.windowStart) > rl.window.
WindowExpired(v, t) == t - v.windowStart > window

RateCapReachedNever(v) == FALSE

RateCapReachedLate(v) == v.requestCount > rate

\* Allow: visitor.requestCount >= rl.rate.
RateCapReached(v) == v.requestCount >= rate

\* Allow: int(elapsed.Seconds() * float64(rl.burst) / windowSeconds), the
\* conversion truncating a non-negative quotient; rl.burst for a zero window.
TokensToAdd(elapsed) ==
    IF window > 0 THEN (elapsed * burst) \div window ELSE burst

RefilledUncapped(v, t) == v.tokens + TokensToAdd(t - v.windowStart)

\* Allow: min(visitor.tokens + tokensToAdd, rl.burst), elapsed being measured
\* from windowStart.
Refilled(v, t) == Min(v.tokens + TokensToAdd(t - v.windowStart), burst)

AllowVisitorCountsDenied(v, t) ==
    IF WindowExpired(v, t) THEN
        [visitor |-> NewVisitor(t), allowed |-> TRUE, branch |-> "reset"]
    ELSE IF RateCapReached(v) THEN
        [visitor |-> [v EXCEPT !.requestCount = @ + 1], allowed |-> FALSE,
         branch |-> "cap"]
    ELSE IF Refilled(v, t) > 0 THEN
        [visitor |-> [v EXCEPT !.tokens = Refilled(v, t) - 1, !.requestCount = @ + 1],
         allowed |-> TRUE, branch |-> "token"]
    ELSE
        [visitor |-> [v EXCEPT !.tokens = Refilled(v, t)],
         allowed |-> FALSE, branch |-> "empty"]

AllowVisitorTokensFirst(v, t) ==
    IF WindowExpired(v, t) THEN
        [visitor |-> NewVisitor(t), allowed |-> TRUE, branch |-> "reset"]
    ELSE IF Refilled(v, t) > 0 THEN
        [visitor |-> [v EXCEPT !.tokens = Refilled(v, t) - 1, !.requestCount = @ + 1],
         allowed |-> TRUE, branch |-> "token"]
    ELSE IF RateCapReached(v) THEN
        [visitor |-> v, allowed |-> FALSE, branch |-> "cap"]
    ELSE
        [visitor |-> [v EXCEPT !.tokens = Refilled(v, t)],
         allowed |-> FALSE, branch |-> "empty"]

\* Allow for a key whose Visitor is v, at time t (lastSeen is already t): the
\* Visitor it leaves, its return value and the branch that returned.
AllowVisitor(v, t) ==
    IF WindowExpired(v, t) THEN
        [visitor |-> NewVisitor(t), allowed |-> TRUE, branch |-> "reset"]
    ELSE IF RateCapReached(v) THEN
        [visitor |-> v, allowed |-> FALSE, branch |-> "cap"]
    ELSE IF Refilled(v, t) > 0 THEN
        [visitor |-> [v EXCEPT !.tokens = Refilled(v, t) - 1, !.requestCount = @ + 1],
         allowed |-> TRUE, branch |-> "token"]
    ELSE
        [visitor |-> [v EXCEPT !.tokens = Refilled(v, t)],
         allowed |-> FALSE, branch |-> "empty"]

AllowStepSharedVisitor(vs, ip, t) ==
    IF DOMAIN vs = {}
    THEN [visitor |-> NewVisitor(t), allowed |-> TRUE, branch |-> "new"]
    ELSE LET k == CHOOSE k \in DOMAIN vs : TRUE
         IN AllowVisitor([vs[k] EXCEPT !.lastSeen = t], t)

\* Allow(ip) run on the visitor map vs at time t.
AllowStep(vs, ip, t) ==
    IF ip \notin DOMAIN vs
    THEN [visitor |-> NewVisitor(t), allowed |-> TRUE, branch |-> "new"]
    ELSE AllowVisitor([vs[ip] EXCEPT !.lastSeen = t], t)

IdleOneWindow(v, t) == t - v.lastSeen > window

\* cleanupVisitors: now.Sub(visitor.lastSeen) > rl.window*2.
Idle(v, t) == t - v.lastSeen > window * 2

\* cleanupVisitors: the keys one sweep deletes.
Purged(vs, t) == {k \in DOMAIN vs : Idle(vs[k], t)}

\* The visitor map vs with the Visitor of key ip set to v.
WithVisitor(vs, ip, v) ==
    [k \in DOMAIN vs \cup {ip} |-> IF k = ip THEN v ELSE vs[k]]

\* The visitor map vs without the keys of gone.
WithoutVisitors(vs, gone) == [k \in DOMAIN vs \ gone |-> vs[k]]

\* ---------------------------------------------------------------- actions
\* NewRateLimiter(r, b, w): the limiter after construction.
NewRateLimiter(r, b, w) ==
    /\ visitors = [k \in {} |-> 0]
    /\ rate = r
    /\ burst = b
    /\ window = w
    /\ granted = [k \in Keys |-> 0]
    /\ instant = [k \in Keys |-> 0]
    /\ seen = {}

\* NewFetchService: the store after construction with a ceiling of m results,
\* its callers having q entries to submit.
StoreInitFor(q, m) ==
    /\ results = <<>>
    /\ ids = <<>>
    /\ lastSubmission = 0
    /\ cleanupStats = ZeroStats
    /\ sched = "running"
    /\ stopSignal = FALSE
    /\ maxResults = m
    /\ held = NoSnapshot
    /\ now = 1
    /\ nextId = 1
    /\ quota = q
    /\ submits = {}
    /\ tasks = {}
    /\ panicked = "none"
    /\ last = NoCall
    /\ mu = "free"

\* The store of a service configured with MaxResultsInMemory, whose callers
\* submit q entries at most.
StoreInitWith(q) == StoreInitFor(q, MaxResultsInMemory)

StoreInit == StoreInitWith(MaxEntries)

\* The store, its limiter constructed and not called.
Init == StoreInit /\ NewRateLimiter(MaxRate, MaxBurst, MaxWindow)

\* time.Now() advances.
Tick ==
    /\ panicked = "none"
    /\ now < MaxTime
    /\ now' = now + 1
    /\ last' = NoCall
    /\ UNCHANGED <<results, ids, lastSubmission, cleanupStats, sched, stopSignal, maxResults, held,
                   nextId, quota, submits, tasks, panicked>>
    /\ instant' = [k \in Keys |-> 0]
    /\ UNCHANGED <<visitors, rate, burst, window, granted, seen, mu>>

\* SubmitURLs, the part under fs.mu: the pending entries are appended.  The two
\* time.Now() calls of the critical section read the same clock value.
AppendPending(urls) ==
    /\ panicked = "none"
    /\ Len(urls) <= quota
    /\ quota' = quota - Len(urls)
    /\ lastSubmission' = now
    /\ results' = results \o [k \in 1..Len(urls) |-> PendingResult(urls[k], now)]
    /\ ids' = ids \o [k \in 1..Len(urls) |-> nextId + k - 1]
    /\ nextId' = nextId + Len(urls)
    /\ submits' = submits \cup {[firstId |-> nextId, n |-> Len(urls), i |-> 0,
                                  base |-> Len(results)]}
    /\ UNCHANGED <<cleanupStats, sched, stopSignal, maxResults, held, tasks, panicked>>

\* SubmitURLs called directly, up to the release of fs.mu.
SubmitURLs(urls) ==
    /\ AppendPending(urls)
    /\ last' = NoCall
    /\ UNCHANGED <<now, limiterVars, mu>>

\* SubmitURLs, one turn of the launch loop, outside fs.mu: the `go` statement
\* evaluates len(fs.results) - len(urls) + i and starts fetchURL with it.
Launch(s) ==
    /\ panicked = "none"
    /\ tasks' = tasks \cup {[forId |-> s.firstId + s.i,
                             index |-> Len(results) - s.n + s.i,
                             pc |-> "read", url |-> ""]}
    /\ submits' = (submits \ {s}) \cup
                  (IF s.i + 1 < s.n THEN {[s EXCEPT !.i = @ + 1]} ELSE {})
    /\ last' = NoCall
    /\ UNCHANGED <<results, ids, lastSubmission, cleanupStats, sched, stopSignal,
                   maxResults, held, now,
                   nextId, quota, panicked>>
    /\ UNCHANGED <<limiterVars, mu>>

\* fetchURL, its first step: fs.results[index].URL is read under the read
\* lock; a position outside the slice is a run-time panic, which ends the
\* process.
FetchRead(t) ==
    /\ panicked = "none"
    /\ t.pc = "read"
    /\ IF t.index < 0 \/ t.index >= Len(results)
       THEN /\ panicked' = "index out of range"
            /\ UNCHANGED tasks
       ELSE /\ tasks' = (tasks \ {t}) \cup
                        {[t EXCEPT !.url = results[t.index + 1].URL, !.pc = "fetch"]}
            /\ UNCHANGED panicked
    /\ last' = NoCall
    /\ UNCHANGED <<results, ids, lastSubmission, cleanupStats, sched, stopSignal,
                   maxResults, held, now,
                   nextId, quota, submits>>
    /\ UNCHANGED <<limiterVars, mu>>

TaskOutcomeNoURLCheck(url, resp, t) == FetchOutcome(url, resp, t, t)

\* The FetchResult a task builds for the URL it read, the network answering
\* `resp`.  Between the read of the URL and updateResult the task touches
\* nothing shared, so the result is built in the step that stores it.
TaskOutcome(url, resp, t) ==
    IF url = "" THEN EmptyURLOutcome(url, t, t) ELSE FetchOutcome(url, resp, t, t)

UpdateResultAndStamp(t, resp) ==
    /\ panicked = "none"
    /\ t.pc = "fetch"
    /\ tasks' = tasks \ {t}
    /\ IF t.index >= 0 /\ t.index < Len(results)
       THEN results' = [results EXCEPT
                           ![t.index + 1] = Stored(TaskOutcome(t.url, resp, now), @)]
       ELSE UNCHANGED results
    /\ lastSubmission' = now
    /\ last' = NoCall
    /\ UNCHANGED <<ids, cleanupStats, sched, stopSignal,
                   maxResults, held, now, nextId, quota, submits,
                   panicked>>
    /\ UNCHANGED <<limiterVars, mu>>

\* fetchURL, from the request to updateResult(index, result) under fs.mu.
UpdateResult(t, resp) ==
    /\ panicked = "none"
    /\ t.pc = "fetch"
    /\ tasks' = tasks \ {t}
    /\ IF t.index >= 0 /\ t.index < Len(results)
       THEN results' = [results EXCEPT
                           ![t.index + 1] = Stored(TaskOutcome(t.url, resp, now), @)]
       ELSE UNCHANGED results
    /\ last' = NoCall
    /\ UNCHANGED <<ids, lastSubmission, cleanupStats, sched, stopSignal,
                   maxResults, held, now, nextId,
                   quota, submits, panicked>>
    /\ UNCHANGED <<limiterVars, mu>>

\* GetResults.
GetResults ==
    /\ panicked = "none"
    /\ last' = [NoCall EXCEPT !.op = "GetResults",
                               !.response = BuildResponse(results, lastSubmission)]
    /\ UNCHANGED <<results, ids, lastSubmission, cleanupStats, sched, stopSignal,
                   maxResults, held, now,
                   nextId, quota, submits, tasks, panicked>>
    /\ UNCHANGED <<limiterVars, mu>>

\* runCleanup receives a tick: cleanupOldResults; last.count is the number of
\* results it removed (the number it logs).
CleanupOldResults ==
    /\ panicked = "none"
    /\ sched = "running"
    /\ LET r == Sweep(results, ids, cleanupStats, now)
       IN /\ results' = r.results
          /\ ids' = r.ids
          /\ cleanupStats' = r.cleanupStats
          /\ last' = [NoCall EXCEPT !.op = "cleanupOldResults", !.count = r.cleaned]
    /\ UNCHANGED <<lastSubmission, sched, stopSignal, maxResults, held, now, nextId, quota, submits,
                   tasks, panicked>>
    /\ UNCHANGED <<limiterVars, mu>>

\* ClearAllResults; last.count is the count it returns.
ClearAllResults ==
    /\ panicked = "none"
    /\ LET r == ClearAll(results, cleanupStats)
       IN /\ results' = r.results
          /\ cleanupStats' = r.cleanupStats
          /\ last' = [NoCall EXCEPT !.op = "ClearAllResults", !.count = r.count]
    /\ ids' = <<>>
    /\ UNCHANGED <<lastSubmission, sched, stopSignal, maxResults, held, now, nextId, quota, submits,
                   tasks, panicked>>
    /\ UNCHANGED <<limiterVars, mu>>

\* The store and its fetch tasks.
Next ==
    \/ Tick
    \/ \E urls \in Batches : SubmitURLs(urls)
    \/ \E s \in submits : Launch(s)
    \/ \E t \in tasks : FetchRead(t)
    \/ \E t \in tasks : \E resp \in StoreResponses : UpdateResult(t, resp)
    \/ GetResults
    \/ CleanupOldResults
    \/ ClearAllResults

Spec == Init /\ [][Next]_vars

\* ------------------------------------------------ the fetch executor alone
\* fetchURL from startTime to the FetchResult it hands to updateResult, for one
\* URL and one answer of the network.
FetchExecutor(url, resp) ==
    /\ last' = [op |-> "fetchURL", url |-> url, resp |-> resp,
                result |-> TaskOutcome(url, resp, now)]
    /\ UNCHANGED <<storeVars, now, limiterVars, mu>>

FetchNext == \E url \in FetchURLs : \E resp \in Responses : FetchExecutor(url, resp)

SpecFetch == Init /\ [][FetchNext]_vars

\* ------------------------------------------------------- the one-batch run
\* The batch of the scenario.
ScenarioBatch == <<"https://a.test", "", "https://b.test">>

\* The fetch stub of the scenario: b.test times out, any other URL answers 200
\* with a body of 10 bytes.
StubResponse(url) ==
    IF url = "https://b.test"
    THEN [hops |-> 0, final |-> "timeout", status |-> 200, body |-> Body(0),
          target |-> "https://c.test"]
    ELSE [hops |-> 0, final |-> "ok", status |-> 200, body |-> Body(10),
          target |-> "https://c.test"]

\* An empty store whose one caller submits the batch of the scenario.
ScenarioInit ==
    /\ StoreInitWith(Len(ScenarioBatch))
    /\ NewRateLimiter(MaxRate, MaxBurst, MaxWindow)

\* The run of the scenario: neither sweep nor clear.
ScenarioNext ==
    \/ Tick
    \/ SubmitURLs(ScenarioBatch)
    \/ \E s \in submits : Launch(s)
    \/ \E t \in tasks : FetchRead(t)
    \/ \E t \in tasks : UpdateResult(t, StubResponse(t.url))
    \/ GetResults

SpecScenario == ScenarioInit /\ [][ScenarioNext]_vars

\* ------------------------------------------------- the store lock in detail
\* SubmitURLs takes fs.mu for writing and stamps lastSubmission and `now`.
SubmitLock(urls) ==
    /\ panicked = "none"
    /\ mu = "free"
    /\ Len(urls) <= quota
    /\ mu' = "SubmitURLs"
    /\ quota' = quota - Len(urls)
    /\ nextId' = nextId + Len(urls)
    /\ lastSubmission' = now
    /\ submits' = submits \cup {[firstId |-> nextId, n |-> Len(urls), i |-> 0,
                                  urls |-> urls, created |-> now, k |-> 0,
                                  pc |-> "append"]}
    /\ last' = NoCall
    /\ UNCHANGED <<results, ids, cleanupStats, sched, stopSignal,
                   maxResults, held, now, tasks, panicked,
                   limiterVars>>

\* SubmitURLs, one turn of the append loop, fs.mu held.
SubmitAppend(s) ==
    /\ panicked = "none"
    /\ s.pc = "append"
    /\ s.k < s.n
    /\ results' = Append(results, PendingResult(s.urls[s.k + 1], s.created))
    /\ ids' = Append(ids, s.firstId + s.k)
    /\ submits' = (submits \ {s}) \cup {[s EXCEPT !.k = @ + 1]}
    /\ last' = NoCall
    /\ UNCHANGED <<lastSubmission, cleanupStats, sched, stopSignal,
                   maxResults, held, now, nextId, quota,
                   tasks, panicked, limiterVars, mu>>

\* SubmitURLs releases fs.mu and goes on to its launch loop.
SubmitUnlock(s) ==
    /\ panicked = "none"
    /\ s.pc = "append"
    /\ s.k = s.n
    /\ mu' = "free"
    /\ submits' = (submits \ {s}) \cup {[s EXCEPT !.pc = "launch"]}
    /\ last' = NoCall
    /\ UNCHANGED <<results, ids, lastSubmission, cleanupStats, sched, stopSignal,
                   maxResults, held, now,
                   nextId, quota, tasks, panicked, limiterVars>>

\* One turn of the launch loop: it takes no lock, whoever holds fs.mu.
LaunchUnlocked(s) == s.pc = "launch" /\ Launch(s)

\* fetchURL reads its URL under fs.mu.RLock.
ReadLocked(t) == mu = "free" /\ FetchRead(t)

\* updateResult writes under fs.mu.Lock.
UpdateLocked(t, resp) == mu = "free" /\ UpdateResult(t, resp)

LockNext ==
    \/ \E urls \in Batches : SubmitLock(urls)
    \/ \E s \in submits : SubmitAppend(s)
    \/ \E s \in submits : SubmitUnlock(s)
    \/ \E s \in submits : LaunchUnlocked(s)
    \/ \E t \in tasks : ReadLocked(t)
    \/ \E t \in tasks : \E resp \in StoreResponses : UpdateLocked(t, resp)

SpecLock == Init /\ [][LockNext]_vars

\* ------------------------------------------------------ the limiter alone
\* A limiter constructed with any rate, burst and window within the bounds.
LimiterInit ==
    /\ StoreInit
    /\ \E r \in 1..MaxRate : \E b \in 0..MaxBurst : \E w \in 0..MaxWindow :
           NewRateLimiter(r, b, w)

\* time.Now() advances between two calls of the limiter.
Elapse ==
    /\ now < MaxClock
    /\ now' = now + 1
    /\ instant' = [k \in Keys |-> 0]
    /\ last' = NoCall
    /\ UNCHANGED <<storeVars, visitors, rate, burst, window, granted, seen, mu>>

\* The limiter after Allow(ip) has run with the outcome a.
Admit(ip, a) ==
    /\ visitors' = WithVisitor(visitors, ip, a.visitor)
    /\ granted' = [granted EXCEPT ![ip] = IF a.branch \in {"new", "reset"} THEN 1
                                          ELSE IF a.allowed THEN @ + 1 ELSE @]
    /\ instant' = [instant EXCEPT ![ip] = IF a.allowed THEN @ + 1 ELSE @]
    /\ seen' = seen \cup {ip}
    /\ UNCHANGED <<rate, burst, window>>

\* Allow(ip), under rl.mu.
Allow(ip) ==
    LET a == AllowStep(visitors, ip, now)
    IN /\ Admit(ip, a)
       /\ last' = [op |-> "Allow", key |-> ip, allowed |-> a.allowed,
                   branch |-> a.branch, returning |-> ip \in seen]
       /\ UNCHANGED <<storeVars, now, mu>>

\* cleanupVisitors receives a tick: one sweep of the visitor map, under rl.mu.
CleanupVisitors ==
    LET gone == Purged(visitors, now)
    IN /\ visitors' = WithoutVisitors(visitors, gone)
       /\ granted' = [k \in Keys |-> IF k \in gone THEN 0 ELSE granted[k]]
       /\ last' = [op |-> "cleanupVisitors", purged |-> gone]
       /\ UNCHANGED <<storeVars, now, rate, burst, window, instant, seen, mu>>

LimiterNext ==
    \/ Elapse
    \/ \E ip \in Keys : Allow(ip)
    \/ CleanupVisitors

SpecLimiter == LimiterInit /\ [][LimiterNext]_vars

\* ------------------------------------------------- the cleanup scheduler
\* Stop: close(fs.cleanupStopChan).  Closing a channel that is already closed
\* is a run-time panic, which ends the process.  Stop returns at once; it does
\* not wait for runCleanup.
Stop ==
    /\ panicked = "none"
    /\ IF stopSignal
       THEN /\ panicked' = "close of closed channel"
            /\ UNCHANGED stopSignal
       ELSE /\ stopSignal' = TRUE
            /\ UNCHANGED panicked
    /\ last' = [NoCall EXCEPT !.op = "Stop"]
    /\ UNCHANGED <<results, ids, lastSubmission, cleanupStats, sched, maxResults, held, now,
                   nextId,
                   quota, submits, tasks>>
    /\ UNCHANGED <<limiterVars, mu>>

\* runCleanup takes the case of the closed stop channel: the ticker is
\* stopped and the goroutine returns.
RunCleanupStop ==
    /\ panicked = "none"
    /\ sched = "running"
    /\ stopSignal
    /\ sched' = "stopped"
    /\ last' = [NoCall EXCEPT !.op = "runCleanup"]
    /\ UNCHANGED <<results, ids, lastSubmission, cleanupStats, stopSignal, maxResults, held,
                   now, nextId,
                   quota, submits, tasks, panicked>>
    /\ UNCHANGED <<limiterVars, mu>>

\* The store with its scheduler.  While the goroutine of runCleanup has not
\* returned, its select takes the case of the ticker whenever a tick is ready,
\* the stop channel being closed or not: with both cases ready the choice is
\* random, and a sweep that waits for fs.mu when Stop is called still runs.
SchedNext ==
    \/ Tick
    \/ \E urls \in Batches : SubmitURLs(urls)
    \/ CleanupOldResults
    \/ Stop
    \/ RunCleanupStop

SpecSched == Init /\ [][SchedNext]_vars

\* ------------------------------------------------- the cleanup statistics
StoredCleanupStats(rs, stats) == stats

\* GetCleanupStats: a copy of fs.cleanupStats with ResultsInMemory set to
\* len(fs.results).
CurrentCleanupStats(rs, stats) == [stats EXCEPT !.ResultsInMemory = Len(rs)]

\* GetCleanupStats, under the read lock; last.stats is what it returns.
GetCleanupStats ==
    /\ panicked = "none"
    /\ last' = [op |-> "GetCleanupStats",
                stats |-> CurrentCleanupStats(results, cleanupStats)]
    /\ UNCHANGED <<storeVars, now, limiterVars, mu>>

\* The store with its sweeps and clears, and a caller that asks for the
\* statistics.
StatsNext ==
    \/ Tick
    \/ \E urls \in Batches : SubmitURLs(urls)
    \/ CleanupOldResults
    \/ ClearAllResults
    \/ GetCleanupStats

SpecStats == Init /\ [][StatsNext]_vars

\* ------------------------------------------- the order of the store's entries
\* The batches submitted to the store below: every URL is fetchable.
OrderBatches == {urls \in Batches : \A k \in 1..Len(urls) : urls[k] # ""}

\* The answers of the network to the fetches of the store below.
OrderResponses == {resp \in StoreResponses : resp.final = "ok"}

\* A store whose ceiling is one entry above MaxResultsInMemory and whose
\* callers submit one entry more than its ceiling, so that a sweep that trims
\* it has several survivors.
OrderInit ==
    /\ StoreInitFor(MaxResultsInMemory + 2, MaxResultsInMemory + 1)
    /\ NewRateLimiter(MaxRate, MaxBurst, MaxWindow)

\* Submits, fetch tasks and sweeps.
OrderNext ==
    \/ Tick
    \/ \E urls \in OrderBatches : SubmitURLs(urls)
    \/ \E s \in submits : Launch(s)
    \/ \E t \in tasks : FetchRead(t)
    \/ \E t \in tasks : \E resp \in OrderResponses : UpdateResult(t, resp)
    \/ CleanupOldResults

SpecOrder == OrderInit /\ [][OrderNext]_vars

\* ------------------------------------------------------ a snapshot kept
SharedSnapshot(rs, is, submitted) ==
    [taken |-> TRUE, own |-> FALSE, ids |-> is, response |-> BuildResponse(rs, submitted)]

\* GetResults: the response it builds is a struct of values whose Results is
\* a slice made for it, into which every FetchResult (a struct of values) is
\* copied.
Snapshot(rs, is, submitted) ==
    [taken |-> TRUE, own |-> TRUE, ids |-> is, response |-> BuildResponse(rs, submitted)]

\* What the holder of the response h reads in it: the elements of a slice
\* that shares the array of fs.results are the ones that array has now.
ReadSnapshot(h) ==
    IF h.own THEN h.response
    ELSE [h.response EXCEPT
             !.Results = [p \in 1..Len(@) |-> IF p <= Len(results) THEN results[p] ELSE @[p]]]

\* A caller calls GetResults and keeps the response.
KeepSnapshot ==
    /\ panicked = "none"
    /\ ~held.taken
    /\ held' = Snapshot(results, ids, lastSubmission)
    /\ last' = [NoCall EXCEPT !.op = "GetResults",
                               !.response = BuildResponse(results, lastSubmission)]
    /\ UNCHANGED <<results, ids, lastSubmission, cleanupStats, sched, stopSignal,
                   maxResults, now, nextId, quota, submits, tasks, panicked>>
    /\ UNCHANGED <<limiterVars, mu>>

\* The store of a service whose callers submit MaxResultsInMemory + 1 entries.
SnapshotInit ==
    /\ StoreInitWith(MaxResultsInMemory + 1)
    /\ NewRateLimiter(MaxRate, MaxBurst, MaxWindow)

\* The store, its fetch tasks, sweeps and clears, and the caller that keeps
\* one snapshot.
SnapshotNext ==
    \/ Tick
    \/ \E urls \in OrderBatches : SubmitURLs(urls)
    \/ \E s \in submits : Launch(s)
    \/ \E t \in tasks : FetchRead(t)
    \/ \E t \in tasks : \E resp \in StoreResponses : UpdateResult(t, resp)
    \/ CleanupOldResults
    \/ ClearAllResults
    \/ KeepSnapshot

SpecSnapshot == SnapshotInit /\ [][SnapshotNext]_vars

\* ----------------------------------------------------------------- claims
\* The fetch task that stores its result in this step, if any.
Writers == {t \in tasks \ tasks' : t.pc = "fetch"}

\* C1: every snapshot GetResults returns has total_urls = success_count +
\* failed_count + pending_count, total_urls is the number of entries returned,
\* and each count is the number of returned entries with that status.
C1_SnapshotCountsConsistent ==
    last.op = "GetResults" =>
        LET r == last.response
            n(st) == Cardinality({p \in 1..Len(r.Results) : r.Results[p].Status = st})
        IN /\ r.TotalURLs = r.SuccessCount + r.FailedCount + r.PendingCount
           /\ r.TotalURLs = Len(r.Results)
           /\ r.SuccessCount = n("success")
           /\ r.FailedCount = n("failed")
           /\ r.PendingCount = n("pending")

\* A snapshot that holds a successful and a failed entry.
C1_Witness ==
    /\ last.op = "GetResults"
    /\ last.response.SuccessCount >= 1
    /\ last.response.FailedCount >= 1

\* C2: the terminal write of a fetch task changes no entry but the one that was
\* appended for the task.
C2_WriteOnlyOwnEntry ==
    [][\A t \in Writers :
          \A p \in 1..Len(results) :
              (p <= Len(results') /\ results'[p] # results[p]) => ids[p] = t.forId]_vars

\* C3: no fetch task reads the store at a position outside its bounds.
C3_NoTaskFaults == panicked # "index out of range"

\* C4: a terminal write lands on a pending entry only: no entry is written twice
\* and a success or failed entry never changes again.
C4_OneTerminalWrite ==
    [][\A t \in Writers :
          (t.index >= 0 /\ t.index < Len(results)) =>
              results[t.index + 1].Status = "pending"]_vars

\* C5: no step changes the created_at of an entry that stays in the store; in
\* particular updateResult keeps the created_at of the position it overwrites,
\* whatever created_at the result it is given carries.
C5_CreatedAtPreserved ==
    [][\A p \in 1..Len(results) : \A q \in 1..Len(results') :
              ids[p] = ids'[q] => results'[q].CreatedAt = results[p].CreatedAt]_vars

\* An entry a fetch task has overwritten still carries a submission time.
C5_Witness ==
    \E p \in 1..Len(results) :
        /\ results[p].Status \in {"success", "failed"}
        /\ results[p].CreatedAt >= 1

\* C6: an entry is pending exactly when its fetchedAt is unset.
C6_PendingIffNoFetchedAt ==
    \A p \in 1..Len(results) :
        (results[p].Status = "pending") <=> (results[p].FetchedAt = 0)

\* C7: right after a sweep no entry of the store is older than the TTL.
C7_SweepRemovesExpired ==
    last.op = "cleanupOldResults" =>
        \A p \in 1..Len(results) : now - results[p].CreatedAt <= ResultTTL

\* A sweep has removed entries, all of which had outlived the TTL.
C7_Witness ==
    /\ last.op = "cleanupOldResults"
    /\ last.count >= 1
    /\ lastSubmission >= 1
    /\ now - lastSubmission > ResultTTL

\* The entries of rs that pass the sweep's TTL test at time t.
Young(rs, t) == SelectSeq(rs, LAMBDA e : t - e.CreatedAt < ResultTTL)

C9_SweepStatistics ==
    [][last'.op = "cleanupOldResults" =>
          LET r == Len(results) - Len(results')
          IN IF r > 0
             THEN cleanupStats' =
                      [LastCleanup |-> now,
                       TotalCleaned |-> cleanupStats.TotalCleaned + r,
                       CleanupCount |-> cleanupStats.CleanupCount + 1,
                       ResultsInMemory |-> Len(results')]
             ELSE results' = results /\ cleanupStats' = cleanupStats]_vars

\* A second removing sweep has just run and left entries behind.
C9_Witness ==
    /\ last.op = "cleanupOldResults"
    /\ last.count >= 1
    /\ cleanupStats.CleanupCount >= 2

\* C10: ClearAllResults returns the number of entries present, empties the
\* store, adds that number to totalCleaned and sets resultsInMemory to 0; the
\* store then stays empty until the next submit and a snapshot of it reports
\* zero for total, success, failed and pending.
C10_ClearAll ==
    [][/\ last'.op = "ClearAllResults" =>
              /\ last'.count = Len(results)
              /\ Len(results') = 0
              /\ cleanupStats'.TotalCleaned = cleanupStats.TotalCleaned + Len(results)
              /\ cleanupStats'.ResultsInMemory = 0
       /\ (Len(results) = 0 /\ quota' = quota) => Len(results') = 0
       /\ (last'.op = "GetResults" /\ Len(results) = 0) =>
              /\ last'.response.TotalURLs = 0
              /\ last'.response.SuccessCount = 0
              /\ last'.response.FailedCount = 0
              /\ last'.response.PendingCount = 0
              /\ last'.response.Results = <<>>]_vars

\* A snapshot taken of the store a clear of at least one entry has emptied.
C10_Witness ==
    /\ last.op = "GetResults"
    /\ last.response.TotalURLs = 0
    /\ Len(results) = 0
    /\ cleanupStats.TotalCleaned >= 1
    /\ cleanupStats.CleanupCount = 0

\* ------------------------------------------------ the submission handler
\* The bodies of the POST /fetch requests: one that does not decode as JSON,
\* and FetchRequests with zero to MaxBatch URLs.
Requests ==
    {[json |-> FALSE, urls |-> <<>>]} \cup
    {[json |-> TRUE, urls |-> u] : u \in UNION {[1..n -> URLs] : n \in 0..MaxBatch}}

StatusIgnoringLimiter(allowed, body) ==
    IF ~body.json THEN 400 ELSE IF Len(body.urls) = 0 THEN 400 ELSE 202

StatusAcceptingEmpty(allowed, body) ==
    IF ~allowed THEN 429 ELSE IF ~body.json THEN 400 ELSE 202

\* HandlePostFetch: the status code it answers a POST with, the limiter having
\* returned `allowed`: 429 Too Many Requests, 400 Bad Request or 202 Accepted.
StatusFor(allowed, body) ==
    IF ~allowed THEN 429
    ELSE IF ~body.json THEN 400
    ELSE IF Len(body.urls) = 0 THEN 400
    ELSE 202

\* HandlePostFetch for a POST from the key ip: Allow(ip), then the decoding and
\* the check of the body, then SubmitURLs up to the release of fs.mu.
HandlePostFetch(ip, body) ==
    LET a == AllowStep(visitors, ip, now)
        code == StatusFor(a.allowed, body)
    IN /\ panicked = "none"
       /\ Admit(ip, a)
       /\ IF code = 202 THEN AppendPending(body.urls) ELSE UNCHANGED storeVars
       /\ last' = [op |-> "HandlePostFetch", key |-> ip, allowed |-> a.allowed,
                   code |-> code, json |-> body.json, n |-> Len(body.urls),
                   urls |-> IF code = 202 THEN body.urls ELSE <<>>]
       /\ UNCHANGED <<now, mu>>

\* The limiter the service behind its handler is run with: it denies a second
\* request made at once for want of a token, and a third one in the same
\* window by the rate cap.
HandlerLimiter == [rate |-> 2, burst |-> 1, window |-> 1]

\* The key of the client whose requests the handler is run with.
Client == "10.0.0.1"

\* The service behind its handler.
HandlerInit ==
    /\ StoreInit
    /\ NewRateLimiter(HandlerLimiter.rate, HandlerLimiter.burst, HandlerLimiter.window)

HandlerNext ==
    \/ Tick
    \/ \E body \in Requests : HandlePostFetch(Client, body)
    \/ \E s \in submits : Launch(s)

SpecHandler == HandlerInit /\ [][HandlerNext]_vars

\* ----------------------------------------------------------------- claims
\* The Visitor of the key the last Allow was called for.
LastVisitor == visitors[last.key]

C12_AtMostRatePerWindow ==
    [][/\ \A k \in Keys : granted'[k] <= rate
       /\ \A ip \in DOMAIN visitors :
              (/\ last'.op = "Allow"
               /\ last'.key = ip
               /\ granted[ip] >= rate
               /\ now - visitors[ip].windowStart <= window) =>
                  (~last'.allowed /\ granted'[ip] = granted[ip])]_vars

\* A request has been denied by the cap some time into the window, with tokens
\* left.
C12_Witness ==
    /\ last.op = "Allow"
    /\ ~last.allowed
    /\ granted[last.key] = rate
    /\ LastVisitor.tokens > 0
    /\ now > LastVisitor.windowStart

\* C13: of the requests of one key issued at the same instant inside a window
\* at most burst are allowed (limiters with burst >= 1 and window >= 1).
C13_BurstBounded ==
    (burst >= 1 /\ window >= 1) => \A k \in Keys : instant[k] <= burst

\* C14: a sweep of the limiter removes exactly the keys not seen for more than
\* 2 * window and leaves the other Visitors as they are; nothing else removes
\* a key; Allow for a key without a Visitor (never seen, or purged) returns
\* true and creates the Visitor with tokens = burst - 1 and requestCount = 1.
C14_IdleSweep ==
    [][/\ last'.op = "cleanupVisitors" =>
              \A k \in DOMAIN visitors :
                  /\ (k \notin DOMAIN visitors') <=> (now - visitors[k].lastSeen > 2 * window)
                  /\ (k \in DOMAIN visitors') => visitors'[k] = visitors[k]
       /\ last'.op # "cleanupVisitors" => DOMAIN visitors \subseteq DOMAIN visitors'
       /\ (last'.op = "Allow" /\ last'.key \notin DOMAIN visitors) =>
              /\ last'.allowed
              /\ visitors'[last'.key] =
                     [tokens |-> burst - 1, lastSeen |-> now, windowStart |-> now,
                      requestCount |-> 1]]_vars

\* A key that was purged has called again and has been given a new Visitor.
C14_Witness ==
    /\ last.op = "Allow"
    /\ last.returning
    /\ last.branch = "new"
    /\ last.allowed
    /\ LastVisitor.requestCount = 1

\* C15: an accepted submission appends one pending entry per URL, in the order
\* given, after all the entries already there, with one created_at for the
\* whole batch and consecutive identities, and returns with no fetch run: the
\* tasks are as they were and the new entries pending.  No other step of the
\* handler, of a launch loop or of the clock changes the store, so that the
\* batches of submissions in flight together are never interleaved.
C15_AppendsBatchInOrder ==
    [][IF last'.op = "HandlePostFetch" /\ last'.code = 202
       THEN LET urls == last'.urls
                old == Len(results)
            IN /\ Len(urls) >= 1
               /\ Len(results') = old + Len(urls)
               /\ SubSeq(results', 1, old) = results
               /\ \A k \in 1..Len(urls) :
                      /\ results'[old + k] =
                             [ZeroResult EXCEPT !.URL = urls[k], !.Status = "pending",
                                                !.CreatedAt = now]
                      /\ ids'[old + k] = nextId + k - 1
               /\ lastSubmission' = now
               /\ tasks' = tasks
       ELSE results' = results /\ ids' = ids]_vars

\* A submission has been accepted while the tasks of an earlier one, made at
\* an earlier time, were still to be launched.
C15_Witness ==
    /\ last.op = "HandlePostFetch"
    /\ last.code = 202
    /\ Len(results) = 2
    /\ Cardinality(submits) = 2
    /\ results[1].CreatedAt < results[2].CreatedAt
    /\ results[2].URL = last.urls[1]

\* C18: the handler accepts a submission only when Allow returned true for the
\* caller's key; when Allow returned false it answers 429, appends no entry,
\* leaves lastSubmission alone and starts no launch loop and no task.
C18_AcceptedOnlyIfAllowed ==
    [][last'.op = "HandlePostFetch" =>
          /\ last'.allowed = AllowStep(visitors, last'.key, now).allowed
          /\ last'.code = 202 => last'.allowed
          /\ results' # results => (last'.allowed /\ last'.code = 202)
          /\ ~last'.allowed =>
                 /\ last'.code = 429
                 /\ results' = results
                 /\ ids' = ids
                 /\ lastSubmission' = lastSubmission
                 /\ submits' = submits
                 /\ tasks' = tasks]_vars

\* A well-formed batch has been turned away by the limiter, an earlier one of
\* the same client standing in the store.
C18_Witness ==
    /\ last.op = "HandlePostFetch"
    /\ ~last.allowed
    /\ last.code = 429
    /\ last.json
    /\ last.n >= 1
    /\ Len(results) >= 1
    /\ quota >= last.n

\* C19: a submission whose batch is empty is never accepted, and is answered
\* 400 when the limiter admits the request; it changes neither the store nor
\* lastSubmission nor the cleanup statistics and starts no launch loop and no
\* task.
C19_EmptyBatchRejected ==
    [][(last'.op = "HandlePostFetch" /\ last'.json /\ last'.n = 0) =>
          /\ last'.code \in {400, 429}
          /\ last'.allowed => last'.code = 400
          /\ results' = results
          /\ ids' = ids
          /\ lastSubmission' = lastSubmission
          /\ cleanupStats' = cleanupStats
          /\ submits' = submits
          /\ tasks' = tasks]_vars

\* An empty batch has been answered 400 at a time later than the last
\* submission, whose entries are in the store.
C19_Witness ==
    /\ last.op = "HandlePostFetch"
    /\ last.json
    /\ last.n = 0
    /\ last.allowed
    /\ last.code = 400
    /\ Len(results) >= 1
    /\ lastSubmission < now

\* C16: the batch <<a.test, "", b.test>> submitted to an empty store, a.test
\* answering 200 with 10 bytes and b.test timing out, with neither sweep nor
\* clear: a snapshot taken when every task has finished holds exactly three
\* entries in the order submitted, the first a success with content_length 10
\* and redirect_count 0, the second failed for its empty URL, the third failed
\* by the timeout.
C16_ScenarioSnapshot ==
    (last.op = "GetResults" /\ nextId > Len(ScenarioBatch) /\ submits = {} /\ tasks = {}) =>
        LET r == last.response
        IN /\ r.TotalURLs = 3
           /\ Len(r.Results) = 3
           /\ r.SuccessCount = 1
           /\ r.FailedCount = 2
           /\ r.PendingCount = 0
           /\ r.Results[1].URL = "https://a.test"
           /\ r.Results[1].Status = "success"
           /\ r.Results[1].ContentLength = 10
           /\ r.Results[1].RedirectCount = 0
           /\ r.Results[2].URL = ""
           /\ r.Results[2].Status = "failed"
           /\ r.Results[2].Error = "URL is empty"
           /\ r.Results[3].URL = "https://b.test"
           /\ r.Results[3].Status = "failed"
           /\ r.Results[3].Error = "Request timeout exceeded"

\* The snapshot of the finished scenario has been taken.
C16_Witness ==
    /\ last.op = "GetResults"
    /\ nextId > Len(ScenarioBatch)
    /\ submits = {}
    /\ tasks = {}
    /\ panicked = "none"
    /\ last.response.TotalURLs = 3

\* C17: a fetch whose redirect chain is longer than MaxRedirects fails with an
\* error that names the redirect cap, and its redirect_count is the number of
\* redirects the client followed before the cap tripped.
C17_RedirectCountIsHopsFollowed ==
    (/\ last.op = "fetchURL"
     /\ last.url # ""
     /\ ~Unparsable(last.url)
     /\ last.resp.hops > MaxRedirects) =>
        /\ last.result.Status = "failed"
        /\ last.result.Error = "Failed to fetch URL: stopped after redirects"
        /\ last.result.RedirectCount = HopsFollowed(last.resp)

\* C20: the store's entries and their number are read only under fs.mu: no
\* launch loop evaluates len(fs.results) while another call holds fs.mu for
\* writing.
C20_NoReadDuringWrite ==
    [][(\E t \in tasks' \ tasks : t.pc = "read") => mu = "free"]_vars

\* C21: the cleanup scheduler is either running or stopped, it never goes from
\* stopped back to running, and once the stop signal has been given no sweep
\* changes the store.
C21_NoSweepAfterStopSignal ==
    [][/\ sched' \in {"running", "stopped"}
       /\ (sched = "stopped" => sched' = "stopped")
       /\ ((stopSignal /\ last'.op = "cleanupOldResults")
              => results' = results)]_vars

\* C22: the position handed to the i-th fetch task of a batch is the length the
\* store had before the batch was appended, plus i, whatever submits, sweeps
\* or clears ran between the append and the launch of the task.
C22_PositionFixedAtAppend ==
    [][\A s \in submits \ submits' : \A t \in tasks' \ tasks :
          (t.pc = "read" /\ t.forId = s.firstId + s.i) => t.index = s.base + s.i]_vars

\* C23: no entry stays pending for good: the fetch tasks being scheduled and
\* bounded by the fetch timeout, once every submit has launched its tasks and
\* every task has finished, no entry still in the store is pending.
C23_NoPendingWhenIdle ==
    (panicked = "none" /\ submits = {} /\ tasks = {})
        => \A p \in 1..Len(results) : results[p].Status # "pending"

\* C24: the first Allow for a key that has no Visitor returns true and creates
\* its Visitor with tokens = burst - 1, windowStart = now, requestCount = 1 and
\* lastSeen = now, for every rate and burst the limiter is configured with; the
\* Visitors of the other keys are left as they are.
C24_FirstAllowCreatesVisitor ==
    [][\A ip \in Keys \ DOMAIN visitors :
          (last'.op = "Allow" /\ last'.key = ip) =>
              /\ last'.allowed
              /\ DOMAIN visitors' = DOMAIN visitors \cup {ip}
              /\ visitors'[ip].tokens = burst - 1
              /\ visitors'[ip].windowStart = now
              /\ visitors'[ip].requestCount = 1
              /\ visitors'[ip].lastSeen = now
              /\ \A k \in DOMAIN visitors : visitors'[k] = visitors[k]]_vars

\* A key never seen before has made its first call, some time after another
\* key made its own, and has its Visitor.
C24_Witness ==
    /\ last.op = "Allow"
    /\ ~last.returning
    /\ last.branch = "new"
    /\ last.allowed
    /\ DOMAIN visitors = Keys
    /\ LastVisitor = [tokens |-> burst - 1, lastSeen |-> now, windowStart |-> now,
                      requestCount |-> 1]
    /\ \E k \in Keys : visitors[k].windowStart < now

\* C25: Allow for a key whose window has expired, now - windowStart > window,
\* begins a new window (windowStart = now, requestCount = 1, tokens =
\* burst - 1) and returns true whatever the Visitor held, at the cap or out of
\* tokens included; with now - windowStart = window there is no reset: the
\* window goes on and its cap still denies.
C25_WindowReset ==
    [][\A ip \in DOMAIN visitors :
          (last'.op = "Allow" /\ last'.key = ip) =>
              /\ (now - visitors[ip].windowStart > window) =>
                     /\ last'.allowed
                     /\ visitors'[ip] = [tokens |-> burst - 1, lastSeen |-> now,
                                         windowStart |-> now, requestCount |-> 1]
              /\ (now - visitors[ip].windowStart = window) =>
                     /\ visitors'[ip].windowStart = visitors[ip].windowStart
                     /\ visitors'[ip].requestCount >= visitors[ip].requestCount
                     /\ (visitors[ip].requestCount >= rate) => ~last'.allowed]_vars

\* A key whose window had reached its cap (rate = 1: the request that began
\* the window) has called after the window expired and has been allowed.
C25_Witness ==
    /\ last.op = "Allow"
    /\ last.branch = "reset"
    /\ last.allowed
    /\ rate = 1
    /\ burst >= 1
    /\ window >= 1
    /\ LastVisitor = [tokens |-> burst - 1, lastSeen |-> now, windowStart |-> now,
                      requestCount |-> 1]

\* The value C26 gives the tokens of Visitor v recomputed at time t.
C26_Recomputed(v, t) ==
    IF window = 0 THEN burst
    ELSE Min(v.tokens + ((t - v.windowStart) * burst) \div window, burst)

\* C26: inside an unexpired window, Allow for a key with requestCount < rate
\* recomputes tokens = min(tokens + floor(elapsed since windowStart * burst /
\* window), burst), tokens = burst when the window is 0, and returns true iff
\* the recomputed tokens are positive, tokens then going down by 1 and
\* requestCount up by 1; otherwise it returns false.
C26_Refill ==
    [][\A ip \in DOMAIN visitors :
          (/\ last'.op = "Allow"
           /\ last'.key = ip
           /\ now - visitors[ip].windowStart <= window
           /\ visitors[ip].requestCount < rate) =>
              LET tokens == C26_Recomputed(visitors[ip], now)
              IN IF tokens > 0
                 THEN /\ last'.allowed
                      /\ visitors'[ip].tokens = tokens - 1
                      /\ visitors'[ip].requestCount = visitors[ip].requestCount + 1
                 ELSE /\ ~last'.allowed
                      /\ visitors'[ip].tokens = tokens
                      /\ visitors'[ip].requestCount = visitors[ip].requestCount]_vars

\* The value Allow gives the tokens of Visitor v recomputed at time t: with a
\* window of 0 the burst is added and capped like any other refill.
C26_RecomputedCapped(v, t) ==
    Min(v.tokens + (IF window = 0 THEN burst
                    ELSE ((t - v.windowStart) * burst) \div window), burst)

\* C26, amended: as C26, with tokens = min(tokens + burst, burst) when the
\* window is 0, which is burst unless tokens + burst is below it (burst = 0,
\* whose Visitors begin with tokens = -1 and keep it); windowStart is left as
\* it is either way.
C26_RefillCapped ==
    [][\A ip \in DOMAIN visitors :
          (/\ last'.op = "Allow"
           /\ last'.key = ip
           /\ now - visitors[ip].windowStart <= window
           /\ visitors[ip].requestCount < rate) =>
              LET tokens == C26_RecomputedCapped(visitors[ip], now)
              IN /\ visitors'[ip].windowStart = visitors[ip].windowStart
                 /\ (window = 0 /\ visitors[ip].tokens >= 0) => tokens = burst
                 /\ IF tokens > 0
                    THEN /\ last'.allowed
                         /\ visitors'[ip].tokens = tokens - 1
                         /\ visitors'[ip].requestCount = visitors[ip].requestCount + 1
                    ELSE /\ ~last'.allowed
                         /\ visitors'[ip].tokens = tokens
                         /\ visitors'[ip].requestCount = visitors[ip].requestCount]_vars

\* Half a window after it used up its burst of 2 a key has been refilled one
\* token (floor(1 * 2 / 2)) and its third request has been allowed with it.
C26_Witness ==
    /\ last.op = "Allow"
    /\ last.allowed
    /\ last.branch = "token"
    /\ burst = 2
    /\ window = 2
    /\ now = LastVisitor.windowStart + 1
    /\ LastVisitor.requestCount = 3
    /\ LastVisitor.tokens = 0

\* C27: in a limiter with burst >= 1 and rate >= 1 every Visitor has, at all
\* times, 0 <= tokens <= burst and 1 <= requestCount <= rate.
C27_VisitorBounds ==
    (burst >= 1 /\ rate >= 1) =>
        \A k \in DOMAIN visitors :
            /\ 0 <= visitors[k].tokens
            /\ visitors[k].tokens <= burst
            /\ 1 <= visitors[k].requestCount
            /\ visitors[k].requestCount <= rate

\* Both ends are met: a key has used its last token on the request that
\* brought its count to the rate, some time into its window, while another key
\* is at its first request.
C27_Witness ==
    /\ burst >= 1
    /\ rate >= 2
    /\ last.op = "Allow"
    /\ last.allowed
    /\ last.branch = "token"
    /\ LastVisitor.tokens = 0
    /\ LastVisitor.requestCount = rate
    /\ now > LastVisitor.windowStart
    /\ \E k \in DOMAIN visitors : visitors[k].requestCount = 1

\* C28: a fetch task whose entry has an empty URL makes no network call and
\* stores a failed outcome whose error says that the URL is empty: whatever the
\* network would have answered, the outcome carries no status code, no content,
\* no final URL; the entries with a URL are fetched as usual, their outcome
\* coming from the network's answer.
C28_EmptyURLFailsWithoutFetch ==
    \A p \in 1..Len(results) :
        LET r == results[p]
        IN r.Status # "pending" =>
               IF r.URL = ""
               THEN /\ r.Status = "failed"
                    /\ r.Error = "URL is empty"
                    /\ r.StatusCode = 0
                    /\ r.Content = <<>>
                    /\ r.ContentLength = 0
                    /\ r.FetchedAt = 0
                    /\ r.FinalURL = ""
                    /\ r.RedirectCount = 0
               ELSE \/ /\ r.Status = "success"
                       /\ r.StatusCode = 200
                       /\ r.ContentLength = Len(r.Content)
                       /\ r.FinalURL = r.URL
                    \/ /\ r.Status = "failed"
                       /\ r.Error = "Request timeout exceeded"

\* Of one batch, the entry with the empty URL has failed for it and the entry
\* with a URL has been fetched.
C28_Witness ==
    /\ Len(results) = 2
    /\ results[1].CreatedAt = results[2].CreatedAt
    /\ ids[2] = ids[1] + 1
    /\ results[1].URL = ""
    /\ results[1].Status = "failed"
    /\ results[1].Error = "URL is empty"
    /\ results[2].URL = "https://a.test"
    /\ results[2].Status = "success"
    /\ results[2].ContentLength = 1

C30_ChainUpToMaxFollowed ==
    (/\ last.op = "fetchURL"
     /\ last.url # ""
     /\ ~Unparsable(last.url)
     /\ last.resp.final = "ok"
     /\ Len(last.resp.body) < MaxContentSize
     /\ last.resp.hops <= MaxRedirects) =>
        /\ last.result.Status = "success"
        /\ last.result.RedirectCount = last.resp.hops
        /\ last.result.FinalURL = IF last.resp.hops = 0 THEN last.url
                                  ELSE last.resp.target

\* C31: a sweep over a store in which no entry is older than the TTL (every
\* age <= TTL) and which holds no more than MaxResultsInMemory entries removes
\* nothing and leaves totalCleaned and cleanupCount as they are.
C31_SweepKeepsUnexpired ==
    [][(/\ last'.op = "cleanupOldResults"
        /\ \A p \in 1..Len(results) : now - results[p].CreatedAt <= ResultTTL
        /\ Len(results) <= MaxResultsInMemory) =>
           /\ results' = results
           /\ cleanupStats'.TotalCleaned = cleanupStats.TotalCleaned
           /\ cleanupStats'.CleanupCount = cleanupStats.CleanupCount]_vars

\* C32: totalCleaned and cleanupCount never decrease, whatever submits, fetch
\* updates, sweeps and clears are run, and only a sweep or a clear changes
\* them.
C32_CountersMonotonic ==
    [][/\ cleanupStats'.TotalCleaned >= cleanupStats.TotalCleaned
       /\ cleanupStats'.CleanupCount >= cleanupStats.CleanupCount
       /\ (\/ cleanupStats'.TotalCleaned # cleanupStats.TotalCleaned
           \/ cleanupStats'.CleanupCount # cleanupStats.CleanupCount) =>
              last'.op \in {"cleanupOldResults", "ClearAllResults"}]_vars

\* A clear has added its entry to the total a sweep had begun.
C32_Witness ==
    /\ last.op = "ClearAllResults"
    /\ last.count >= 1
    /\ cleanupStats.CleanupCount >= 1
    /\ cleanupStats.TotalCleaned > last.count

\* C33: GetCleanupStats reports results_in_memory equal to the size the store
\* has at the call, the other statistics as they are kept, also when entries
\* were submitted with no sweep or clear since; on a store never swept nor
\* cleared it reports the number of entries with cleanup_count = 0 and
\* total_cleaned = 0.
C33_StatsReportStoreSize ==
    last.op = "GetCleanupStats" =>
        /\ last.stats.ResultsInMemory = Len(results)
        /\ last.stats.TotalCleaned = cleanupStats.TotalCleaned
        /\ last.stats.CleanupCount = cleanupStats.CleanupCount
        /\ last.stats.LastCleanup = cleanupStats.LastCleanup
        /\ (nextId - 1 = Len(results)) =>
               (last.stats.CleanupCount = 0 /\ last.stats.TotalCleaned = 0)

\* Two entries were submitted after the last sweep: the statistics kept still
\* say 0 in memory, the ones reported say 2.
C33_Witness ==
    /\ last.op = "GetCleanupStats"
    /\ Len(results) = 2
    /\ cleanupStats.ResultsInMemory = 0
    /\ last.stats.ResultsInMemory = 2
    /\ last.stats.CleanupCount = 0

\* C34: updateResult(index, result) changes the entry at that position only:
\* every other entry, the length of the store, lastSubmission and the cleanup
\* statistics are as they were, and with the position outside the store the
\* call changes nothing at all.
C34_UpdateChangesOneEntry ==
    [][\A t \in Writers :
          /\ Len(results') = Len(results)
          /\ \A p \in 1..Len(results) : p # t.index + 1 => results'[p] = results[p]
          /\ ids' = ids
          /\ lastSubmission' = lastSubmission
          /\ cleanupStats' = cleanupStats
          /\ (t.index < 0 \/ t.index >= Len(results)) => results' = results]_vars

\* The second entry of a batch has its outcome while the first is pending as
\* it was appended.
C34_Witness ==
    /\ Len(results) = 2
    /\ results[1] = PendingResult(results[1].URL, lastSubmission)
    /\ results[2].Status = "success"
    /\ results[2].CreatedAt = lastSubmission
    /\ cleanupStats = ZeroStats
    /\ tasks # {}

\* C35: the store keeps the order of insertion: whatever submits, updates and
\* sweeps were run, the entries that remain are in the order in which they
\* were appended (a sweep removes entries and leaves the survivors in their
\* order), so that createdAt never decreases along the store.
C35_InsertionOrderKept ==
    \A p \in 1..Len(results) : \A q \in 1..Len(results) :
        p < q => /\ ids[p] < ids[q]
                 /\ results[p].CreatedAt <= results[q].CreatedAt

\* A sweep has removed the oldest of three entries and left the two others,
\* one of them fetched, in the order of their insertion.
C35_Witness ==
    /\ last.op = "cleanupOldResults"
    /\ last.count = 1
    /\ Len(results) = 2
    /\ ids = <<2, 3>>
    /\ results[1].Status = "success"
    /\ results[2].Status = "pending"

\* C36: while the cap of a key is reached (requestCount >= rate inside an
\* unexpired window) Allow denies even with tokens left: the cap is tested
\* before the refill and the token test, and the Visitor's tokens and
\* requestCount are left as they were.
C36_CapBeforeTokens ==
    [][\A ip \in DOMAIN visitors :
          (/\ last'.op = "Allow"
           /\ last'.key = ip
           /\ visitors[ip].requestCount >= rate
           /\ now - visitors[ip].windowStart <= window) =>
              /\ ~last'.allowed
              /\ visitors'[ip].tokens = visitors[ip].tokens
              /\ visitors'[ip].requestCount = visitors[ip].requestCount
              /\ visitors'[ip].windowStart = visitors[ip].windowStart]_vars

\* A key at its cap has been denied at the very end of its window, with a
\* token in hand and a refill due.
C36_Witness ==
    /\ last.op = "Allow"
    /\ ~last.allowed
    /\ last.branch = "cap"
    /\ burst >= 2
    /\ window >= 1
    /\ LastVisitor.requestCount = rate
    /\ LastVisitor.tokens >= 1
    /\ now = LastVisitor.windowStart + window

\* C37: entries are conserved: at all times the number of entries ever
\* appended by SubmitURLs is the size of the store plus totalCleaned, every
\* entry a sweep or a clear removed being counted there once.
C37_EntriesConserved ==
    nextId - 1 = Len(results) + cleanupStats.TotalCleaned

\* A sweep has removed two entries at once, fetch tasks still running, and
\* counted both.
C37_Witness ==
    /\ last.op = "cleanupOldResults"
    /\ last.count = 2
    /\ cleanupStats.TotalCleaned = 2
    /\ Len(results) = 0
    /\ nextId = 3
    /\ tasks # {}

\* The visitor map vs as seen by key ip alone.
Only(vs, ip) == [k \in DOMAIN vs \cap {ip} |-> vs[k]]

\* C38: the keys of the limiter are independent: Allow(k1) reads and writes
\* the Visitor of k1 only, so that what a key is answered, and the Visitor it
\* is left with, are what they would be had no other key ever called, in any
\* interleaving; the sweep keeps or deletes a key by its own lastSeen.
C38_KeysIndependent ==
    [][/\ \A ip \in Keys :
              (last'.op = "Allow" /\ last'.key = ip) =>
                  LET alone == AllowStep(Only(visitors, ip), ip, now)
                  IN /\ last'.allowed = alone.allowed
                     /\ visitors'[ip] = alone.visitor
                     /\ Only(visitors', ip) = WithVisitor(Only(visitors, ip), ip, alone.visitor)
                     /\ \A k \in Keys \ {ip} : Only(visitors', k) = Only(visitors, k)
       /\ last'.op = "cleanupVisitors" =>
              \A k \in Keys :
                  Only(visitors', k) = WithoutVisitors(Only(visitors, k),
                                                       Purged(Only(visitors, k), now))]_vars

\* One key is at its cap; the other, calling at the same instant, has been
\* allowed.
C38_Witness ==
    /\ last.op = "Allow"
    /\ last.allowed
    /\ last.branch = "token"
    /\ DOMAIN visitors = Keys
    /\ \E k \in Keys \ {last.key} :
           /\ visitors[k].requestCount = rate
           /\ visitors[k].lastSeen = now
           /\ visitors[k].windowStart = LastVisitor.windowStart

\* The times from t on at which the window of Visitor v has not expired.
WithinWindow(v, t) == {u \in t..MaxClock : u - v.windowStart <= window}

\* C39: a denied Allow leaves the tokens, requestCount and windowStart of its
\* key as they were and sets lastSeen to now; a key so seen within 2 * window
\* is kept by the sweep; and the key is denied again on any further call made
\* before its window expires.
C39_DeniedUntilWindowExpires ==
    [][/\ \A ip \in DOMAIN visitors :
              (last'.op = "Allow" /\ last'.key = ip /\ ~last'.allowed) =>
                  /\ visitors'[ip] = [visitors[ip] EXCEPT !.lastSeen = now]
                  /\ \A u \in WithinWindow(visitors'[ip], now) :
                         ~AllowStep(visitors', ip, u).allowed
       /\ last'.op = "cleanupVisitors" =>
              \A k \in DOMAIN visitors :
                  now - visitors[k].lastSeen <= 2 * window => k \in DOMAIN visitors']_vars

\* C39, amended: a denied Allow leaves the tokens, requestCount and
\* windowStart of its key as they were and sets lastSeen to now; a key so seen
\* within 2 * window is kept by the sweep; a key denied by the cap is denied
\* again on any further call made before its window expires, and a key denied
\* for want of a token is denied again until the refill, which grows with the
\* time since windowStart, gives it one or its window expires.
C39_DeniedUntilRefillOrExpiry ==
    [][/\ \A ip \in DOMAIN visitors :
              (last'.op = "Allow" /\ last'.key = ip /\ ~last'.allowed) =>
                  /\ visitors'[ip] = [visitors[ip] EXCEPT !.lastSeen = now]
                  /\ \A u \in WithinWindow(visitors'[ip], now) :
                         AllowStep(visitors', ip, u).allowed <=>
                             /\ visitors'[ip].requestCount < rate
                             /\ visitors'[ip].tokens
                                    + (IF window = 0 THEN burst
                                       ELSE ((u - visitors'[ip].windowStart) * burst)
                                                \div window) > 0
       /\ last'.op = "cleanupVisitors" =>
              \A k \in DOMAIN visitors :
                  now - visitors[k].lastSeen <= 2 * window => k \in DOMAIN visitors']_vars

\* A key out of tokens has been denied half-way through its window, below its
\* cap: the refill due at the end of the window will let it in.
C39_Witness ==
    /\ last.op = "Allow"
    /\ ~last.allowed
    /\ last.branch = "empty"
    /\ burst >= 1
    /\ window = 2
    /\ LastVisitor.tokens = 0
    /\ LastVisitor.requestCount < rate
    /\ LastVisitor.lastSeen = now
    /\ now = LastVisitor.windowStart + 1
    /\ AllowStep(visitors, last.key, now + 1).allowed

\* C40: a snapshot is a copy of its own: the fetch updates, sweeps and clears
\* (and submits) that run after GetResults returned change neither the entries
\* nor the counts its holder reads in it; an entry pending in it may have its
\* outcome in the store since, the snapshot still showing it pending.
C40_SnapshotIndependent ==
    [][held.taken =>
          /\ held' = held
          /\ ReadSnapshot(held)' = ReadSnapshot(held)
          /\ ReadSnapshot(held)' = held.response
          /\ held.response.TotalURLs = Len(held.response.Results)]_vars

\* The first entry of the snapshot has been fetched since, fetch tasks still
\* running; the snapshot shows it pending and counts two pending entries.
C40_Witness ==
    /\ held.taken
    /\ Len(ReadSnapshot(held).Results) = 2
    /\ ReadSnapshot(held).Results[1].Status = "pending"
    /\ ReadSnapshot(held).PendingCount = 2
    /\ Len(results) = 2
    /\ ids = held.ids
    /\ results[1].Status = "success"
    /\ tasks # {}

====
